---- MODULE Spec2Model ----
(***************************************************************************)
(* A model of balerion-data: the MT5 bar collector.                        *)
(*                                                                         *)
(*   scripts/mt5_utils.py               find_symbol, collect_maximum_data, *)
(*                                      save_dataframe, load_existing_data,*)
(*                                      append_new_data                    *)
(*   scripts/update_weekly_data.py      collect_recent_data, update_symbol,*)
(*                                      update_all_symbols                 *)
(*   scripts/collect_historical_data.py collect_all_symbols                *)
(*   scripts/check_data.py              check_file, check_all_data         *)
(*                                                                         *)
(* A bar is a record [time, val]: time is the bar's timestamp and val      *)
(* stands for its open/high/low/close/volume payload.  A DataFrame is a    *)
(* sequence of bars (its rows in index order).  Time is counted in hours.  *)
(*                                                                         *)
(* The specifications share the variables:                                 *)
(*   SpecMerge      append_new_data applied to drawn inputs                *)
(*   SpecResolve    find_symbol against any symbol table                   *)
(*   SpecPaging     collect_maximum_data against a simulated vendor that   *)
(*                  holds a fixed number of chunks of history              *)
(*   SpecBackfill   collect_maximum_data against an arbitrary vendor       *)
(*   SpecLoop       collect_maximum_data against a vendor with more        *)
(*                  history than the loop's budget reaches                 *)
(*   Spec           one symbol's artifact under any sequence of backfills  *)
(*                  and updates, with an arbitrary vendor                  *)
(*   SpecFormats    Spec under each value of SAVE_FORMAT                   *)
(*   SpecBatch      the per-symbol loops of collect_all_symbols and        *)
(*                  update_all_symbols                                     *)
(*   SpecLifecycle  SpecBatch with interrupts and exceptions outside the   *)
(*                  per-symbol calls                                       *)
(*   SpecCheck      check_all_data over the files of the configured paths  *)
(***************************************************************************)
EXTENDS Integers, Sequences, FiniteSets

VARIABLES
    pc,             \* position of the running operation
    op,             \* the operation last started: "none", "merge", "backfill", "update"
    result,         \* what the last per-symbol operation returned ("True", "False", "raised", "none")
    primary,        \* the file at the symbol's parquet path
    backup,         \* the file at the .parquet.backup path
    all_rates,      \* collect_maximum_data: bars accumulated so far
    earliest_time,  \* collect_maximum_data: the watermark
    attempt,        \* collect_maximum_data: paged requests issued
    anchors,        \* collect_maximum_data: the earlier_datetime of every paged request, in order
    asked_symbol,   \* find_symbol: its argument, the symbol asked for
    symbol_table,   \* the vendor's symbol table find_symbol runs against
    actual_symbol,  \* collect_maximum_data: what find_symbol returned ("unset" before the call)
    fetch_calls,    \* bar-fetch calls (copy_rates_from_pos / copy_rates_from) of the operation
    info_calls,     \* symbol-resolution calls (find_symbol) of the operation
    df,             \* collect_maximum_data's result (rows), <<>> while None
    vendor_left,    \* simulated vendor: non-empty chunks it still holds
    served,         \* the vendor's answers to bar requests, in call order (SpecPaging: the non-empty ones)
    existing_df,    \* update_symbol / append_new_data: the existing rows
    new_kind,       \* update_symbol: what collect_recent_data returned, "None" or "frame" ("no": not called)
    new_df,         \* update_symbol / append_new_data: the fetched window
    merged_df,      \* update_symbol / append_new_data: the merged rows
    force,          \* update_symbol: the --force flag of the running update
    hours_since_update,  \* update_symbol: the dataset's age at the freshness check (0: not checked)
    run,            \* batch: "none", "collect" or "update"
    todo,           \* batch: symbols of the current loop not yet processed
    done_fx,        \* batch: TRUE once the FX loop has ended
    fx_success, fx_failed, idx_success, idx_failed,  \* batch: the four lists
    attempted,      \* batch: symbols handed to the per-symbol call, in order
    mt5,            \* batch: vendor connection, "down", "up" or "closed"
    shutdowns,      \* batch: calls of mt5.shutdown() so far
    disk,           \* check_data: the file at each configured symbol's path
    fx_checked, fx_ok, idx_checked, idx_ok,  \* check_all_data: its four counters
    configured_format   \* config.SAVE_FORMAT as the run reads it

fileVars   == <<primary, backup>>
pagingVars == <<all_rates, earliest_time, attempt, anchors, df>>
resolveVars == <<asked_symbol, symbol_table, actual_symbol>>
checkVars  == <<disk, fx_checked, fx_ok, idx_checked, idx_ok>>
configVars == <<configured_format>>
callVars   == <<fetch_calls, info_calls>>
vendorVars == <<vendor_left, served>>
updateVars == <<existing_df, new_kind, new_df, merged_df, force, hours_since_update>>
batchVars  == <<run, todo, done_fx, fx_success, fx_failed, idx_success, idx_failed,
                attempted, mt5, shutdowns>>
vars == <<pc, op, result, fileVars, pagingVars, resolveVars, checkVars, configVars, callVars, vendorVars, updateVars,
          batchVars>>

----------------------------------------------------------------------------
\* Bounds of the model

MaxT == 2           \* timestamps of the arbitrary vendor are 0..MaxT
MaxChunkLen == 2    \* longest chunk the arbitrary vendor returns
MaxNow == 14        \* readings of datetime.now() are 0..MaxNow
MaxDays == 1        \* --days is 0..MaxDays
MaxDeepT == 11      \* timestamps of the simulated vendor are 0..MaxDeepT
MaxDepth == 12      \* most chunks of history the simulated vendor holds

\* Program constants
MAX_HISTORICAL_ATTEMPTS == 10
FRESH_HOURS == 12
HOURS_PER_DAY == 24
ANCHOR_MINUTES == 1

Payloads == {"p", "q"}
Times == 0..MaxT
Bars == [time : Times, val : Payloads]

\* All sequences over S of length at most n
SeqUpTo(S, n) == UNION {[1..k -> S] : k \in 0..n}

Frames == SeqUpTo(Bars, MaxChunkLen)

----------------------------------------------------------------------------
\* DataFrame primitives (pandas), as the code uses them

TimesOf(rows) == {rows[i].time : i \in 1..Len(rows)}

MinTime(rows) == CHOOSE t \in TimesOf(rows) : \A u \in TimesOf(rows) : t <= u

MaxTime(rows) == CHOOSE t \in TimesOf(rows) : \A u \in TimesOf(rows) : t >= u

\* The bug of keep="last" in the backfill
DropDuplicatesFirstAsLast(rows) ==
    LET keep(i) == \A j \in (i + 1)..Len(rows) : rows[j].time # rows[i].time
        F[i \in 0..Len(rows)] ==
            IF i = 0 THEN <<>>
            ELSE IF keep(i) THEN Append(F[i - 1], rows[i]) ELSE F[i - 1]
    IN F[Len(rows)]

\* df.drop_duplicates(subset=["timestamp"], keep="first")
DropDuplicatesFirst(rows) ==
    LET keep(i) == \A j \in 1..(i - 1) : rows[j].time # rows[i].time
        F[i \in 0..Len(rows)] ==
            IF i = 0 THEN <<>>
            ELSE IF keep(i) THEN Append(F[i - 1], rows[i]) ELSE F[i - 1]
    IN F[Len(rows)]

\* df.drop_duplicates(subset=["timestamp"], keep="last")
DropDuplicatesLast(rows) ==
    LET keep(i) == \A j \in (i + 1)..Len(rows) : rows[j].time # rows[i].time
        F[i \in 0..Len(rows)] ==
            IF i = 0 THEN <<>>
            ELSE IF keep(i) THEN Append(F[i - 1], rows[i]) ELSE F[i - 1]
    IN F[Len(rows)]

\* Insert a row after the rows whose timestamp is not greater (a stable insertion)
InsertByTime(sorted, b) ==
    LET n == Cardinality({i \in 1..Len(sorted) : sorted[i].time <= b.time})
    IN SubSeq(sorted, 1, n) \o <<b>> \o SubSeq(sorted, n + 1, Len(sorted))

\* The bug of keeping the concatenation order
SortValuesSkipped(rows) == rows

\* The bug of sorting with ascending=False
SortValuesDescending(rows) ==
    LET before(sorted, b) == Cardinality({i \in 1..Len(sorted) : sorted[i].time > b.time})
        F[i \in 0..Len(rows)] ==
            IF i = 0 THEN <<>>
            ELSE SubSeq(F[i - 1], 1, before(F[i - 1], rows[i])) \o <<rows[i]>>
                 \o SubSeq(F[i - 1], before(F[i - 1], rows[i]) + 1, Len(F[i - 1]))
    IN F[Len(rows)]

\* df.sort_values("timestamp").reset_index(drop=True); the code sorts only
\* de-duplicated frames, so the order of equal timestamps never matters
SortValues(rows) ==
    LET F[i \in 0..Len(rows)] ==
            IF i = 0 THEN <<>> ELSE InsertByTime(F[i - 1], rows[i])
    IN F[Len(rows)]

\* The bug of a merge that keeps only the fetched window
AppendNewDataOnlyNew(existing, new) ==
    SortValues(DropDuplicatesLast(new))

\* The bug of keeping the first occurrence in the merge
AppendNewDataKeepFirst(existing, new) ==
    SortValues(DropDuplicatesFirst(existing \o new))

\* append_new_data: concatenate, keep the last row of each timestamp, sort
AppendNewData(existing, new) ==
    SortValues(DropDuplicatesLast(existing \o new))

\* Timestamps strictly increasing in stored order (hence unique)
StrictlyIncreasing(rows) ==
    \A i \in 1..(Len(rows) - 1) : rows[i].time < rows[i + 1].time

\* The last row of rows at timestamp t
LastAt(rows, t) ==
    LET i == CHOOSE k \in 1..Len(rows) :
                 /\ rows[k].time = t
                 /\ \A j \in (k + 1)..Len(rows) : rows[j].time # t
    IN rows[i]

\* The first row of rows at timestamp t
FirstAt(rows, t) ==
    LET i == CHOOSE k \in 1..Len(rows) :
                 /\ rows[k].time = t
                 /\ \A j \in 1..(k - 1) : rows[j].time # t
    IN rows[i]

RowsAt(rows, t) == {i \in 1..Len(rows) : rows[i].time = t}

----------------------------------------------------------------------------
\* Initial values of the variables an operation does not use

NoFile == [state |-> "absent", rows |-> <<>>]

\* config.py, line 47
SAVE_FORMAT == "parquet"

\* The values save_dataframe gives a meaning to
SAVE_FORMATS == {"parquet", "csv", "both"}

InitConfig == configured_format = SAVE_FORMAT

InitFiles  == primary = NoFile /\ backup = NoFile
InitPaging == /\ all_rates = <<>> /\ earliest_time = 0 /\ attempt = 0 /\ df = <<>>
              /\ anchors = <<>>
InitCheck == /\ disk = <<>>
             /\ fx_checked = 0 /\ fx_ok = 0 /\ idx_checked = 0 /\ idx_ok = 0
InitResolve == asked_symbol = "none" /\ symbol_table = <<>> /\ actual_symbol = "unset"
InitCalls  == fetch_calls = 0 /\ info_calls = 0
InitVendor == vendor_left = 0 /\ served = <<>>
InitUpdate == /\ existing_df = <<>> /\ new_kind = "no" /\ new_df = <<>> /\ merged_df = <<>>
              /\ force = FALSE /\ hours_since_update = 0
InitBatch  == /\ run = "none" /\ todo = <<>> /\ done_fx = FALSE
              /\ fx_success = <<>> /\ fx_failed = <<>>
              /\ idx_success = <<>> /\ idx_failed = <<>>
              /\ attempted = <<>> /\ mt5 = "down" /\ shutdowns = 0

----------------------------------------------------------------------------
\* SpecMerge: append_new_data on drawn inputs

InitMerge ==
    /\ pc = "merge_in" /\ op = "merge" /\ result = "none"
    /\ existing_df \in Frames /\ new_df \in Frames /\ merged_df = <<>>
    /\ new_kind = "frame" /\ force = FALSE /\ hours_since_update = 0
    /\ InitFiles /\ InitPaging /\ InitResolve /\ InitCheck /\ InitConfig /\ InitCalls /\ InitVendor /\ InitBatch

Merge ==
    /\ pc = "merge_in"
    /\ merged_df' = AppendNewData(existing_df, new_df)
    /\ pc' = "merge_out"
    /\ UNCHANGED <<op, result, fileVars, pagingVars, callVars, vendorVars, resolveVars, checkVars, configVars, batchVars,
                   existing_df, new_kind, new_df, force, hours_since_update>>

NextMerge == Merge

SpecMerge == InitMerge /\ [][NextMerge]_vars

----------------------------------------------------------------------------
\* Configuration (config.py)

FX_SYMBOLS == <<"EURUSD", "USDJPY", "GBPUSD", "EURGBP", "USDCAD", "AUDNZD">>

INDEX_SYMBOLS == <<"US30", "XAUUSD">>

SYMBOL_ALTERNATIVES(symbol) ==
    CASE symbol = "EURUSD" -> <<"EURUSD", "EURUSD.a", "EURUSDm", "EURUSD.">>
      [] symbol = "USDJPY" -> <<"USDJPY", "USDJPY.a", "USDJPYm", "USDJPY.">>
      [] symbol = "GBPUSD" -> <<"GBPUSD", "GBPUSD.a", "GBPUSDm", "GBPUSD.">>
      [] symbol = "EURGBP" -> <<"EURGBP", "EURGBP.a", "EURGBPm", "EURGBP.">>
      [] symbol = "USDCAD" -> <<"USDCAD", "USDCAD.a", "USDCADm", "USDCAD.">>
      [] symbol = "AUDNZD" -> <<"AUDNZD", "AUDNZD.a", "AUDNZDm", "AUDNZD.">>
      [] symbol = "US30" -> <<"US30", "US30.cash", "US30Cash", "USA30", "DJ30", "US30.">>
      [] symbol = "XAUUSD" -> <<"XAUUSD", "XAUUSD.a", "XAUUSDm", "GOLD", "XAUUSD.">>
      [] OTHER -> <<symbol>>

REMOVE_DUPLICATES == TRUE

\* The symbol whose artifact Spec and SpecPaging follow
TheSymbol == "EURUSD"

----------------------------------------------------------------------------
\* The vendor's symbol table: what mt5.symbol_info and mt5.symbol_select answer
\* for a spelling.  "unknown": symbol_info is None; "visible": found and in
\* Market Watch; "hidden": found, and symbol_select enables it; "locked":
\* found, and symbol_select fails.

SymbolStates == {"unknown", "visible", "hidden", "locked"}

Range(seq) == {seq[i] : i \in 1..Len(seq)}

SymbolTables(symbol) == [Range(SYMBOL_ALTERNATIVES(symbol)) -> SymbolStates]

\* The bug of going on after a usable spelling, so that the last one wins
FindSymbolLast(symbol, table) ==
    LET alternatives == SYMBOL_ALTERNATIVES(symbol)
        usable(i) == table[alternatives[i]] \in {"visible", "hidden"}
    IN IF \E i \in 1..Len(alternatives) : usable(i)
       THEN alternatives[CHOOSE i \in 1..Len(alternatives) :
                             usable(i) /\ \A j \in (i + 1)..Len(alternatives) : ~usable(j)]
       ELSE "None"

\* find_symbol: the first spelling, in configured order, that is found and
\* visible or can be enabled; "None" when there is none
FindSymbol(symbol, table) ==
    LET alternatives == SYMBOL_ALTERNATIVES(symbol)
        usable(i) == table[alternatives[i]] \in {"visible", "hidden"}
    IN IF \E i \in 1..Len(alternatives) : usable(i)
       THEN alternatives[CHOOSE i \in 1..Len(alternatives) :
                             usable(i) /\ \A j \in 1..(i - 1) : ~usable(j)]
       ELSE "None"

----------------------------------------------------------------------------
\* SpecResolve: find_symbol applied to a symbol against any symbol table

\* A symbol without an entry in SYMBOL_ALTERNATIVES
UNLISTED_SYMBOL == "BTCUSD"

AskedSymbols == Range(FX_SYMBOLS) \cup Range(INDEX_SYMBOLS) \cup {UNLISTED_SYMBOL}

InitFindSymbol ==
    /\ pc = "fs_call" /\ op = "none" /\ result = "none"
    /\ asked_symbol \in AskedSymbols
    /\ symbol_table \in SymbolTables(asked_symbol)
    /\ actual_symbol = "unset"
    /\ InitFiles /\ InitPaging /\ InitCheck /\ InitConfig /\ InitCalls /\ InitVendor /\ InitUpdate /\ InitBatch

FindSymbolCall ==
    /\ pc = "fs_call"
    /\ actual_symbol' = FindSymbol(asked_symbol, symbol_table)
    /\ pc' = "fs_return"
    /\ UNCHANGED <<op, result, fileVars, pagingVars, asked_symbol, symbol_table, checkVars, configVars, callVars,
                   vendorVars, updateVars, batchVars>>

NextResolve == FindSymbolCall

SpecResolve == InitFindSymbol /\ [][NextResolve]_vars

----------------------------------------------------------------------------
\* collect_maximum_data, one action per vendor call

\* Lines 156-207: the DataFrame returned from the accumulated rates
FinalFrame(rates) ==
    SortValues(IF REMOVE_DUPLICATES THEN DropDuplicatesFirst(rates) ELSE rates)

\* The bug of prepending the whole chunk
OlderThanUnfiltered(rates, watermark) == rates

\* Line 142: the bars of a paged chunk that are older than the watermark
OlderThan(rates, watermark) ==
    LET older(r) == r.time < watermark IN SelectSeq(rates, older)

\* The bug of a loop that stops one request early, range(max_attempts - 1)
BudgetLeftOneShort(n) == n + 1 < MAX_HISTORICAL_ATTEMPTS

\* Line 123: for attempt in range(max_attempts)
BudgetLeft(n) == n < MAX_HISTORICAL_ATTEMPTS

\* The local state of collect_maximum_data between two vendor calls
PagingState ==
    [pc |-> pc, result |-> result, all_rates |-> all_rates,
     earliest_time |-> earliest_time, attempt |-> attempt, anchors |-> anchors,
     fetch_calls |-> fetch_calls, df |-> df]

SetPagingState(st) ==
    /\ pc' = st.pc /\ result' = st.result /\ all_rates' = st.all_rates
    /\ earliest_time' = st.earliest_time /\ attempt' = st.attempt
    /\ anchors' = st.anchors
    /\ fetch_calls' = st.fetch_calls /\ df' = st.df

\* The bug of handing back None when the loop has ended
FinishWithNone(st) ==
    [st EXCEPT !.pc = "bf_return", !.result = "None"]

\* Lines 154-207: the loop has ended and the DataFrame is returned
Finish(st) ==
    [st EXCEPT !.pc = "bf_return", !.result = "df", !.df = FinalFrame(st.all_rates)]

\* Line 123: the head of the loop, which ends when the budget is used up
LoopHead(st) ==
    IF BudgetLeft(st.attempt) THEN [st EXCEPT !.pc = "bf_page"] ELSE Finish(st)

\* Lines 99-121: the answer to the initial request, copy_rates_from_pos
AfterInitial(st, rates) ==
    LET called == [st EXCEPT !.fetch_calls = @ + 1]
    IN IF Len(rates) = 0
       THEN [called EXCEPT !.pc = "bf_return", !.result = "None"]
       ELSE LoopHead([called EXCEPT !.all_rates = rates,
                                    !.earliest_time = MinTime(rates),
                                    !.attempt = 0])

\* The bug of anchoring the request at the watermark itself
AnchorAtWatermark(watermark) == [datetime |-> watermark, minutes_before |-> 0]

\* Line 124: earlier_datetime = earliest_datetime - timedelta(minutes=1).  The
\* model's timestamps are whole hours, so the anchor is kept as the watermark
\* and the minutes taken off it.
Anchor(watermark) == [datetime |-> watermark, minutes_before |-> ANCHOR_MINUTES]

\* The bug of taking the chunk's first row for its earliest
NewEarliestTimeFirstRow(earlier_rates) == earlier_rates[1].time

\* Lines 134-135: new_earliest_time = df_earlier["time"].min()
NewEarliestTime(earlier_rates) == MinTime(earlier_rates)

\* Lines 124-147: the answer to one paged request, copy_rates_from anchored
\* one minute before the watermark
AfterPage(st, earlier_rates) ==
    LET called == [st EXCEPT !.fetch_calls = @ + 1, !.attempt = @ + 1,
                             !.anchors = Append(@, Anchor(st.earliest_time))]
    IN IF Len(earlier_rates) = 0 \/ NewEarliestTime(earlier_rates) >= st.earliest_time
       THEN Finish(called)
       ELSE LoopHead([called EXCEPT
                !.all_rates = OlderThan(earlier_rates, st.earliest_time) \o @,
                !.earliest_time = NewEarliestTime(earlier_rates)])

\* Lines 82-84: collect_maximum_data is entered
BackfillStart ==
    /\ pc = "idle"
    /\ pc' = "bf_resolve" /\ op' = "backfill" /\ result' = "none"
    /\ all_rates' = <<>> /\ earliest_time' = 0 /\ attempt' = 0 /\ df' = <<>>
    /\ anchors' = <<>> /\ actual_symbol' = "unset"
    /\ fetch_calls' = 0 /\ info_calls' = 0
    /\ UNCHANGED <<fileVars, asked_symbol, symbol_table, checkVars, configVars, updateVars, batchVars>>

\* Lines 86-97: find_symbol against the vendor's symbol table
BackfillResolve ==
    /\ pc = "bf_resolve"
    /\ \E found \in {FindSymbol(TheSymbol, table) : table \in SymbolTables(TheSymbol)} :
         /\ actual_symbol' = found
         /\ IF found = "None"
            THEN pc' = "bf_return" /\ result' = "None"
            ELSE pc' = "bf_initial" /\ result' = result
    /\ info_calls' = info_calls + 1
    /\ UNCHANGED <<op, fileVars, pagingVars, asked_symbol, symbol_table, checkVars, configVars, fetch_calls, updateVars,
                   batchVars>>

\* Lines 99-121: the most recent chunk is requested
BackfillInitial(rates) ==
    /\ pc = "bf_initial"
    /\ SetPagingState(AfterInitial(PagingState, rates))
    /\ UNCHANGED <<op, fileVars, resolveVars, checkVars, configVars, info_calls, updateVars, batchVars>>

\* Lines 123-152: one paged request
BackfillPage(earlier_rates) ==
    /\ pc = "bf_page"
    /\ SetPagingState(AfterPage(PagingState, earlier_rates))
    /\ UNCHANGED <<op, fileVars, resolveVars, checkVars, configVars, info_calls, updateVars, batchVars>>

----------------------------------------------------------------------------
\* SpecPaging: collect_maximum_data against a simulated vendor that holds
\* vendor_left chunks of history: it answers that many bar requests with a
\* non-empty chunk, each older than all it returned before, and every later
\* request with an empty chunk.

\* The chunks the simulated vendor has returned are progressively older and
\* non-overlapping: each holds distinct timestamps, all of them older than
\* every timestamp of the chunks before it
Progressive(chunks) ==
    /\ \A i \in 1..Len(chunks) : Cardinality(TimesOf(chunks[i])) = Len(chunks[i])
    /\ \A i, j \in 1..Len(chunks) :
         i < j => \A t \in TimesOf(chunks[i]), u \in TimesOf(chunks[j]) : u < t

DeepBars == [time : 0..MaxDeepT, val : {"p"}]

DeepChunks == {<<b>> : b \in DeepBars}

InitPaging0 ==
    /\ pc = "idle" /\ op = "none" /\ result = "none"
    /\ vendor_left \in 0..MaxDepth /\ served = <<>>
    /\ InitFiles /\ InitPaging /\ InitResolve /\ InitCheck /\ InitConfig /\ InitCalls /\ InitUpdate /\ InitBatch

\* The simulated vendor's answer to a bar request
SimAnswer(rates) ==
    IF vendor_left > 0
    THEN /\ rates \in DeepChunks
         /\ Progressive(Append(served, rates))
         /\ vendor_left' = vendor_left - 1
         /\ served' = Append(served, rates)
    ELSE /\ rates = <<>>
         /\ UNCHANGED <<vendor_left, served>>

SimStart == BackfillStart /\ UNCHANGED vendorVars

\* The simulated vendor lists the symbol under its configured name or not at all
SimResolve ==
    /\ BackfillResolve
    /\ actual_symbol' \in {TheSymbol, "None"}
    /\ UNCHANGED vendorVars

SimInitial == \E rates \in DeepChunks \cup {<<>>} : SimAnswer(rates) /\ BackfillInitial(rates)

SimPage == \E rates \in DeepChunks \cup {<<>>} : SimAnswer(rates) /\ BackfillPage(rates)

NextPaging == SimStart \/ SimResolve \/ SimInitial \/ SimPage

SpecPaging == InitPaging0 /\ [][NextPaging]_vars

----------------------------------------------------------------------------
\* SpecBackfill: collect_maximum_data against a vendor that answers every bar
\* request with any chunk, empty, unsorted, overlapping or repeated; served
\* records every answer in call order

InitBackfill ==
    /\ pc = "idle" /\ op = "none" /\ result = "none"
    /\ InitFiles /\ InitPaging /\ InitResolve /\ InitCheck /\ InitConfig /\ InitCalls /\ InitVendor /\ InitUpdate
    /\ InitBatch

\* An answer of the vendor to a bar request
AnyAnswer(rates) ==
    /\ served' = Append(served, rates)
    /\ UNCHANGED vendor_left

AnyStart == BackfillStart /\ UNCHANGED vendorVars

AnyResolve == BackfillResolve /\ UNCHANGED vendorVars

AnyInitial == \E rates \in Frames : AnyAnswer(rates) /\ BackfillInitial(rates)

AnyPage == \E rates \in Frames : AnyAnswer(rates) /\ BackfillPage(rates)

NextBackfill == AnyStart \/ AnyResolve \/ AnyInitial \/ AnyPage

SpecBackfill == InitBackfill /\ [][NextBackfill]_vars

----------------------------------------------------------------------------
\* Files.  A file is absent, complete ("ok", with its rows) or "partial": what
\* a write that failed part-way leaves behind, which no reader can load.

OkFile(rows) == [state |-> "ok", rows |-> rows]

PartialFile == [state |-> "partial", rows |-> <<>>]

\* save_dataframe, the write succeeding: the parquet path holds the frame when
\* the format writes parquet; "csv" leaves the parquet path as it is
SaveDataframe(frame, file, save_format) ==
    IF save_format \in {"parquet", "both"} THEN OkFile(frame) ELSE file

\* save_dataframe, df.to_parquet raising: the path is as it was (the failure
\* came before the file was opened) or holds a part of the frame
SaveDataframeFailed(file, save_format) ==
    IF save_format \in {"parquet", "both"} THEN {file, PartialFile} ELSE {file}

\* The per-symbol call has returned to its loop, which goes on
Returned ==
    /\ pc = "returned"
    /\ pc' = "idle"
    /\ op' = "none" /\ result' = "none"
    /\ all_rates' = <<>> /\ earliest_time' = 0 /\ attempt' = 0 /\ df' = <<>>
    /\ anchors' = <<>>
    /\ fetch_calls' = 0 /\ info_calls' = 0
    /\ existing_df' = <<>> /\ new_kind' = "no" /\ new_df' = <<>> /\ merged_df' = <<>>
    /\ force' = FALSE /\ hours_since_update' = 0
    /\ UNCHANGED <<fileVars, vendorVars, resolveVars, checkVars, configVars, batchVars>>

\* What collect_maximum_data hands back: the return value and the number of
\* bar requests it took
CollectOutcome(st) ==
    [result |-> st.result, df |-> st.df, fetch_calls |-> st.fetch_calls]

\* The outcomes of the paging loop from a state on, the vendor answering
\* every paged request with any chunk
RECURSIVE PagingOutcomes(_)
PagingOutcomes(st) ==
    IF st.pc = "bf_return"
    THEN {CollectOutcome(st)}
    ELSE UNION {PagingOutcomes(AfterPage(st, rates)) : rates \in Frames}

\* collect_maximum_data as it is entered
PagingEntry ==
    [pc |-> "bf_initial", result |-> "none", all_rates |-> <<>>,
     earliest_time |-> 0, attempt |-> 0, anchors |-> <<>>, fetch_calls |-> 0, df |-> <<>>]

\* Every outcome of collect_maximum_data for a symbol that was found (found)
\* or not, over all the vendor's answers
CollectMaximumData(found) ==
    IF found
    THEN UNION {PagingOutcomes(AfterInitial(PagingEntry, rates)) : rates \in Frames}
    ELSE {[result |-> "None", df |-> <<>>, fetch_calls |-> 0]}

\* The outcomes for the symbol the artifact belongs to, by whether it resolved
SymbolOutcomes ==
    LET found == {FindSymbol(TheSymbol, table) # "None" : table \in SymbolTables(TheSymbol)}
    IN [f \in found |-> CollectMaximumData(f)]

\* collect_all_symbols, lines 54-67: one turn of the loop, collect_maximum_data
\* and the save of its result
Backfill ==
    /\ pc = "idle"
    /\ pc' = "returned" /\ op' = "backfill"
    /\ info_calls' = 1
    /\ \E f \in DOMAIN SymbolOutcomes : \E o \in SymbolOutcomes[f] :
         /\ df' = o.df
         /\ fetch_calls' = o.fetch_calls
         /\ IF o.result = "None" \/ Len(o.df) = 0
            THEN result' = "False" /\ UNCHANGED fileVars
            ELSE \/ /\ primary' = SaveDataframe(o.df, primary, configured_format)
                    /\ result' = "True"
                    /\ UNCHANGED backup
                 \/ /\ primary' \in SaveDataframeFailed(primary, configured_format)
                    /\ result' = "raised"
                    /\ UNCHANGED backup
    /\ UNCHANGED <<all_rates, earliest_time, attempt, anchors, vendorVars, resolveVars, checkVars, configVars,
                   updateVars, batchVars>>

----------------------------------------------------------------------------
\* update_symbol and collect_recent_data

Nows == 0..MaxNow

Days == 0..MaxDays

\* Lines 134-136: the age of the latest bar at a reading of datetime.now()
HoursSinceUpdate(rows, now) == now - MaxTime(rows)

\* The bug of a threshold one hour short
IsFreshOneShort(rows, now) == HoursSinceUpdate(rows, now) + 1 < FRESH_HOURS

\* Line 137: hours_since_update < 12
IsFresh(rows, now) == HoursSinceUpdate(rows, now) < FRESH_HOURS

\* Lines 62 and 85: the bars at or after now - days
InDateRange(rates, now, days) ==
    LET from_date == now - days * HOURS_PER_DAY
        recent(r) == r.time >= from_date
    IN SelectSeq(rates, recent)

\* Line 154: the number of rows the merge adds
NewRows(merged, existing) == Len(merged) - Len(existing)

\* The bug of testing new_rows < 0
NoNewDataStrict(merged, existing) == NewRows(merged, existing) < 0

\* Line 155: if new_rows <= 0, there is nothing to write
NoNewData(merged, existing) == NewRows(merged, existing) <= 0

\* Lines 133-137: the update is skipped when not forced and the data is fresh
SkipUpdate(f, is_fresh) == ~f /\ is_fresh

\* The bug of going on to the fetch without a dataset
GoOnWithoutDataset == [pc |-> "up_resolve", result |-> "none"]

\* Lines 127-130: without a dataset update_symbol returns False at once
ReturnWithoutDataset == [pc |-> "returned", result |-> "False"]

\* Lines 122-140: load_existing_data and the freshness check
UpdateLoad ==
    /\ pc = "idle"
    /\ op' = "update"
    /\ \E f \in BOOLEAN :
         /\ force' = f
         /\ CASE primary.state = "absent" ->
                   /\ pc' = ReturnWithoutDataset.pc
                   /\ result' = ReturnWithoutDataset.result
                   /\ existing_df' = <<>> /\ hours_since_update' = 0
              [] primary.state = "partial" ->
                   /\ pc' = "returned" /\ result' = "raised"
                   /\ existing_df' = <<>> /\ hours_since_update' = 0
              [] OTHER ->
                   \E now \in Nows :
                     /\ existing_df' = primary.rows
                     /\ hours_since_update' =
                            IF f THEN 0 ELSE HoursSinceUpdate(primary.rows, now)
                     /\ IF SkipUpdate(f, IsFresh(primary.rows, now))
                        THEN pc' = "returned" /\ result' = "True"
                        ELSE pc' = "up_resolve" /\ result' = "none"
    /\ new_kind' = "no" /\ new_df' = <<>> /\ merged_df' = <<>>
    /\ fetch_calls' = 0 /\ info_calls' = 0
    /\ UNCHANGED <<fileVars, pagingVars, vendorVars, resolveVars, checkVars, configVars, batchVars>>

\* collect_recent_data, lines 52-59: find_symbol
UpdateResolve ==
    /\ pc = "up_resolve"
    /\ info_calls' = info_calls + 1
    /\ \E found \in {FindSymbol(TheSymbol, table) : table \in SymbolTables(TheSymbol)} :
         IF found = "None"
         THEN pc' = "returned" /\ result' = "False"
         ELSE pc' = "up_rates" /\ result' = result
    /\ UNCHANGED <<op, fileVars, pagingVars, fetch_calls, vendorVars, resolveVars, checkVars, configVars, updateVars, batchVars>>

\* collect_recent_data, lines 61-105, and update_symbol, lines 145-160: the
\* fetch, the date-range filter, the merge and the count of new rows
UpdateRates ==
    /\ pc = "up_rates"
    /\ fetch_calls' = fetch_calls + 1
    /\ \E rates \in Frames :
         IF Len(rates) = 0
         THEN /\ pc' = "returned" /\ result' = "False"
              /\ new_kind' = "None"
              /\ UNCHANGED <<new_df, merged_df>>
         ELSE \E window \in {InDateRange(rates, now, days) : now \in Nows, days \in Days} :
                LET merged == AppendNewData(existing_df, window)
                IN /\ new_kind' = "frame"
                   /\ new_df' = window
                   /\ IF Len(window) = 0
                      THEN /\ pc' = "returned" /\ result' = "False"
                           /\ UNCHANGED merged_df
                      ELSE /\ merged_df' = merged
                           /\ IF NoNewData(merged, existing_df)
                              THEN pc' = "returned" /\ result' = "True"
                              ELSE pc' = "up_backup" /\ result' = result
    /\ UNCHANGED <<op, fileVars, pagingVars, info_calls, vendorVars, resolveVars, checkVars, configVars,
                   existing_df, force, hours_since_update, batchVars>>

\* The bug of removing the primary file where it should be renamed
UpdateBackupUnlinks ==
    /\ pc = "up_backup"
    /\ primary' = NoFile
    /\ pc' = "up_save" /\ result' = result
    /\ UNCHANGED <<op, backup, pagingVars, callVars, vendorVars, resolveVars, checkVars, configVars, updateVars, batchVars>>

\* Lines 162-166: the primary file is renamed to the backup path.  Where a
\* backup is already there, Path.rename replaces it (POSIX) or raises
\* FileExistsError (Windows).
UpdateBackup ==
    /\ pc = "up_backup"
    /\ \/ /\ backup' = primary
          /\ primary' = NoFile
          /\ pc' = "up_save" /\ result' = result
       \/ /\ backup.state # "absent"
          /\ pc' = "returned" /\ result' = "raised"
          /\ UNCHANGED fileVars
    /\ UNCHANGED <<op, pagingVars, callVars, vendorVars, resolveVars, checkVars, configVars, updateVars, batchVars>>

\* Lines 168-169: save_dataframe(merged_df, filepath, config.SAVE_FORMAT)
UpdateSave ==
    /\ pc = "up_save"
    /\ \/ /\ primary' = SaveDataframe(merged_df, primary, configured_format)
          /\ pc' = "up_unlink" /\ result' = result
       \/ /\ primary' \in SaveDataframeFailed(primary, configured_format)
          /\ pc' = "returned" /\ result' = "raised"
    /\ UNCHANGED <<op, backup, pagingVars, callVars, vendorVars, resolveVars, checkVars, configVars, updateVars, batchVars>>

\* Lines 171-175: the backup is removed and True returned
UpdateUnlink ==
    /\ pc = "up_unlink"
    /\ backup' = IF backup.state # "absent" THEN NoFile ELSE backup
    /\ pc' = "returned" /\ result' = "True"
    /\ UNCHANGED <<op, primary, pagingVars, callVars, vendorVars, resolveVars, checkVars, configVars, updateVars, batchVars>>

----------------------------------------------------------------------------
\* Spec: the artifact of one symbol under any sequence of backfills
\* (collect_all_symbols) and updates (update_all_symbols), the vendor
\* answering every bar request with any chunk, empty or not

Init ==
    /\ pc = "idle" /\ op = "none" /\ result = "none"
    /\ InitFiles /\ InitPaging /\ InitResolve /\ InitCheck /\ InitConfig /\ InitCalls /\ InitVendor /\ InitUpdate /\ InitBatch

Next ==
    \/ Backfill
    \/ UpdateLoad \/ UpdateResolve \/ UpdateRates
    \/ UpdateBackup \/ UpdateSave \/ UpdateUnlink
    \/ Returned

Spec == Init /\ [][Next]_vars

----------------------------------------------------------------------------
\* SpecFormats: Spec under each value of SAVE_FORMAT, started with or without
\* a dataset that an earlier run has persisted at the parquet path

\* The files a run of the collector leaves at the parquet path
PersistedFiles == {NoFile} \cup {OkFile(FinalFrame(rates)) : rates \in Frames \ {<<>>}}

InitFormats ==
    /\ pc = "idle" /\ op = "none" /\ result = "none"
    /\ configured_format \in SAVE_FORMATS
    /\ primary \in PersistedFiles /\ backup = NoFile
    /\ InitPaging /\ InitResolve /\ InitCheck /\ InitCalls /\ InitVendor /\ InitUpdate /\ InitBatch

SpecFormats == InitFormats /\ [][Next]_vars

----------------------------------------------------------------------------
\* SpecBatch: collect_all_symbols and update_all_symbols, every per-symbol
\* call ending in any of its outcomes

\* How a per-symbol call ends inside the try: success (the frame saved,
\* update_symbol returning True), a failure return (None or an empty frame,
\* update_symbol returning False) or an Exception raised
Outcomes == {"True", "False", "raised"}

\* The bug of an exception leaving the loop
RemainingAborted(symbols, outcome) ==
    IF outcome = "raised" THEN <<>> ELSE Tail(symbols)

\* for symbol in ...: try ... except Exception: the loop goes on to the next
\* symbol whatever the outcome
Remaining(symbols, outcome) == Tail(symbols)

\* One turn of a loop: the call, then the append to one of the loop's lists
SymbolTurn(outcome, success, failed, success_next, failed_next) ==
    LET symbol == Head(todo)
    IN /\ attempted' = Append(attempted, [symbol |-> symbol, outcome |-> outcome])
       /\ result' = outcome
       /\ IF outcome = "True"
          THEN success_next = Append(success, symbol) /\ failed_next = failed
          ELSE failed_next = Append(failed, symbol) /\ success_next = success
       /\ todo' = Remaining(todo, outcome)

InitBatchRun ==
    /\ pc = "b_start" /\ op = "none" /\ result = "none"
    /\ run \in {"collect", "update"}
    /\ todo = <<>> /\ done_fx = FALSE
    /\ fx_success = <<>> /\ fx_failed = <<>>
    /\ idx_success = <<>> /\ idx_failed = <<>>
    /\ attempted = <<>> /\ mt5 = "down" /\ shutdowns = 0
    /\ InitFiles /\ InitPaging /\ InitResolve /\ InitCheck /\ InitConfig /\ InitCalls /\ InitVendor /\ InitUpdate

\* The bug of going on to the loops after a failed initialization
FailedInitializeGoesOn == "b_fx"

\* `if not mt5_utils.initialize_mt5(): return`, ahead of the try statement
FailedInitialize == "b_done"

\* initialize_mt5: on failure the function returns before any loop
Initialize ==
    /\ pc = "b_start"
    /\ \/ /\ mt5' = "up" /\ pc' = "b_fx" /\ todo' = FX_SYMBOLS
       \/ /\ mt5' = mt5 /\ pc' = FailedInitialize /\ todo' = todo
    /\ UNCHANGED <<op, result, fileVars, pagingVars, callVars, vendorVars, resolveVars, checkVars, configVars, updateVars,
                   run, done_fx, fx_success, fx_failed, idx_success, idx_failed, attempted,
                   shutdowns>>

\* collect_all_symbols, lines 54-67
CollectFxTurn ==
    /\ pc = "b_fx" /\ run = "collect" /\ todo # <<>>
    /\ \E outcome \in Outcomes :
         SymbolTurn(outcome, fx_success, fx_failed, fx_success', fx_failed')
    /\ UNCHANGED <<pc, op, fileVars, pagingVars, callVars, vendorVars, resolveVars, checkVars, configVars, updateVars,
                   run, done_fx, idx_success, idx_failed, mt5, shutdowns>>

\* collect_all_symbols, lines 77-90
CollectIndexTurn ==
    /\ pc = "b_idx" /\ run = "collect" /\ todo # <<>>
    /\ \E outcome \in Outcomes :
         SymbolTurn(outcome, idx_success, idx_failed, idx_success', idx_failed')
    /\ UNCHANGED <<pc, op, fileVars, pagingVars, callVars, vendorVars, resolveVars, checkVars, configVars, updateVars,
                   run, done_fx, fx_success, fx_failed, mt5, shutdowns>>

\* update_all_symbols, lines 213-221
UpdateFxTurn ==
    /\ pc = "b_fx" /\ run = "update" /\ todo # <<>>
    /\ \E outcome \in Outcomes :
         SymbolTurn(outcome, fx_success, fx_failed, fx_success', fx_failed')
    /\ UNCHANGED <<pc, op, fileVars, pagingVars, callVars, vendorVars, resolveVars, checkVars, configVars, updateVars,
                   run, done_fx, idx_success, idx_failed, mt5, shutdowns>>

\* update_all_symbols, lines 231-239
UpdateIndexTurn ==
    /\ pc = "b_idx" /\ run = "update" /\ todo # <<>>
    /\ \E outcome \in Outcomes :
         SymbolTurn(outcome, idx_success, idx_failed, idx_success', idx_failed')
    /\ UNCHANGED <<pc, op, fileVars, pagingVars, callVars, vendorVars, resolveVars, checkVars, configVars, updateVars,
                   run, done_fx, fx_success, fx_failed, mt5, shutdowns>>

\* The FX loop has run out of symbols: the index loop starts
FxLoopEnd ==
    /\ pc = "b_fx" /\ todo = <<>>
    /\ pc' = "b_idx" /\ todo' = INDEX_SYMBOLS /\ done_fx' = TRUE
    /\ UNCHANGED <<op, result, fileVars, pagingVars, callVars, vendorVars, resolveVars, checkVars, configVars, updateVars,
                   run, fx_success, fx_failed, idx_success, idx_failed, attempted, mt5, shutdowns>>

\* The index loop has run out of symbols: the summary is printed
IndexLoopEnd ==
    /\ pc = "b_idx" /\ todo = <<>>
    /\ pc' = "b_finally"
    /\ UNCHANGED <<op, result, fileVars, pagingVars, callVars, vendorVars, resolveVars, checkVars, configVars, updateVars, batchVars>>

\* The bug of a shutdown at the end of the try body, which an exception skips
FinallySkipped(n, ending) == IF ending = "normal" THEN n + 1 ELSE n

\* finally: mt5_utils.shutdown_mt5() runs however the try statement ends
Finally(n, ending) == n + 1

\* mt5.shutdown() closes an open connection; there is nothing to close when
\* no connection was made
AfterShutdown(connection) == IF connection = "down" THEN "down" ELSE "closed"

\* finally: shutdown_mt5()
Shutdown ==
    /\ pc = "b_finally"
    /\ mt5' = AfterShutdown(mt5) /\ pc' = "b_done"
    /\ shutdowns' = Finally(shutdowns, IF result = "unexpected" THEN "raised" ELSE "normal")
    /\ UNCHANGED <<op, result, fileVars, pagingVars, callVars, vendorVars, resolveVars, checkVars, configVars, updateVars,
                   run, todo, done_fx, fx_success, fx_failed, idx_success, idx_failed, attempted>>

\* KeyboardInterrupt during a per-symbol call: it is no Exception, so it
\* passes both handlers; the finally clause shuts the connection down and the
\* interrupt reaches main
Interrupt ==
    /\ pc \in {"b_fx", "b_idx"} /\ todo # <<>>
    /\ attempted' = Append(attempted, [symbol |-> Head(todo), outcome |-> "interrupt"])
    /\ result' = "interrupt"
    /\ mt5' = AfterShutdown(mt5) /\ pc' = "b_main_except"
    /\ shutdowns' = Finally(shutdowns, "interrupt")
    /\ UNCHANGED <<op, fileVars, pagingVars, callVars, vendorVars, resolveVars, checkVars, configVars, updateVars,
                   run, todo, done_fx, fx_success, fx_failed, idx_success, idx_failed>>

\* main: except KeyboardInterrupt: shutdown_mt5(); sys.exit(1)
MainExcept ==
    /\ pc = "b_main_except"
    /\ mt5' = AfterShutdown(mt5) /\ shutdowns' = shutdowns + 1 /\ pc' = "b_exit"
    /\ UNCHANGED <<op, result, fileVars, pagingVars, callVars, vendorVars, resolveVars, checkVars, configVars, updateVars,
                   run, todo, done_fx, fx_success, fx_failed, idx_success, idx_failed, attempted>>

NextBatch ==
    \/ Initialize
    \/ CollectFxTurn \/ CollectIndexTurn
    \/ UpdateFxTurn \/ UpdateIndexTurn
    \/ FxLoopEnd \/ IndexLoopEnd
    \/ Shutdown
    \/ Interrupt \/ MainExcept

SpecBatch == InitBatchRun /\ [][NextBatch]_vars

----------------------------------------------------------------------------
\* SpecLoop: collect_maximum_data against a vendor with more history than the
\* loop's budget reaches.  It answers a paged request relative to the
\* watermark the request is anchored at: with nothing, with the bar at the
\* watermark again, with the bar before the watermark, or with that bar and
\* the bar at the watermark.

DeepBar(t) == [time |-> t, val |-> "p"]

InitialAnswers == {<<>>, <<DeepBar(MaxDeepT)>>, <<DeepBar(MaxDeepT - 1), DeepBar(MaxDeepT)>>}

PageAnswers(watermark) ==
    {<<>>, <<DeepBar(watermark)>>}
        \cup (IF watermark > 0
              THEN {<<DeepBar(watermark - 1)>>, <<DeepBar(watermark - 1), DeepBar(watermark)>>}
              ELSE {})

LoopInitial == \E rates \in InitialAnswers : AnyAnswer(rates) /\ BackfillInitial(rates)

LoopPage == \E rates \in PageAnswers(earliest_time) : AnyAnswer(rates) /\ BackfillPage(rates)

NextLoop == AnyStart \/ AnyResolve \/ LoopInitial \/ LoopPage

SpecLoop == InitBackfill /\ [][NextLoop]_vars

----------------------------------------------------------------------------
\* SpecCheck: check_data.py over any files at the configured symbols' paths

GAP_HOURS == 2

\* A value pandas reads as null
NaN == "NaN"

\* df['timestamp'].duplicated().sum(): rows whose timestamp an earlier row has
Duplicates(rows) ==
    Cardinality({i \in DOMAIN rows : \E j \in 1..(i - 1) : rows[j].time = rows[i].time})

\* df.isnull().sum().sum()
MissingValues(rows) == Cardinality({i \in DOMAIN rows : rows[i].val = NaN})

\* Lines 43-47: steps of more than two hours between rows in timestamp order
LargeGaps(rows) ==
    LET df_sorted == SortValues(rows)
    IN Cardinality({i \in 2..Len(df_sorted) :
                        df_sorted[i].time - df_sorted[i - 1].time > GAP_HOURS})

\* What check_file prints with a warning mark for a frame
Warnings(rows) ==
    [duplicates |-> Duplicates(rows), missing |-> MissingValues(rows),
     large_gaps |-> LargeGaps(rows)]

NoWarnings == [duplicates |-> 0, missing |-> 0, large_gaps |-> 0]

\* The bug of failing a file that has a warning
CheckFileStrict(file) ==
    file.state = "ok" /\ Warnings(file.rows) = NoWarnings

\* check_file: False without a file, False when reading it raises, and True
\* at the end of the report
CheckFile(file) ==
    CASE file.state = "absent" -> FALSE
      [] file.state = "partial" -> FALSE
      [] OTHER -> TRUE

CleanFrame == <<[time |-> 0, val |-> "p"], [time |-> 1, val |-> "q"]>>

DuplicatedFrame == <<[time |-> 0, val |-> "p"], [time |-> 0, val |-> "q"]>>

GappedFrame == <<[time |-> 0, val |-> "p"], [time |-> 3, val |-> NaN]>>

\* The files a path can hold when the checker runs
CheckedFiles ==
    {NoFile, PartialFile}
        \cup {[state |-> "ok", rows |-> rows] : rows \in {CleanFrame, DuplicatedFrame, GappedFrame}}

ConfiguredSymbols == Range(FX_SYMBOLS) \cup Range(INDEX_SYMBOLS)

\* The files at the paths of the index symbols and of the first FX symbols
\* vary; the other FX paths hold a clean file
VariedSymbols == Range(INDEX_SYMBOLS) \cup {FX_SYMBOLS[i] : i \in 1..3}

InitCheckAll ==
    /\ pc = "c_fx" /\ op = "none" /\ result = "none"
    /\ disk \in [ConfiguredSymbols -> CheckedFiles]
    /\ \A symbol \in ConfiguredSymbols \ VariedSymbols :
         disk[symbol] = [state |-> "ok", rows |-> CleanFrame]
    /\ fx_checked = 0 /\ fx_ok = 0 /\ idx_checked = 0 /\ idx_ok = 0
    /\ InitConfig
    /\ InitFiles /\ InitPaging /\ InitResolve /\ InitCalls /\ InitVendor /\ InitUpdate
    /\ run = "none" /\ todo = FX_SYMBOLS /\ done_fx = FALSE
    /\ fx_success = <<>> /\ fx_failed = <<>> /\ idx_success = <<>> /\ idx_failed = <<>>
    /\ attempted = <<>> /\ mt5 = "down" /\ shutdowns = 0

\* check_all_data, lines 80-84
CheckFxTurn ==
    /\ pc = "c_fx" /\ todo # <<>>
    /\ fx_checked' = fx_checked + 1
    /\ fx_ok' = IF CheckFile(disk[Head(todo)]) THEN fx_ok + 1 ELSE fx_ok
    /\ todo' = Tail(todo)
    /\ UNCHANGED <<pc, op, result, fileVars, pagingVars, resolveVars, disk, idx_checked, idx_ok, configVars,
                   callVars, vendorVars, updateVars, run, done_fx, fx_success, fx_failed,
                   idx_success, idx_failed, attempted, mt5, shutdowns>>

\* The FX loop is over: lines 86-91
CheckFxLoopEnd ==
    /\ pc = "c_fx" /\ todo = <<>>
    /\ pc' = "c_idx" /\ todo' = INDEX_SYMBOLS
    /\ UNCHANGED <<op, result, fileVars, pagingVars, resolveVars, checkVars, configVars, callVars,
                   vendorVars, updateVars, run, done_fx, fx_success, fx_failed,
                   idx_success, idx_failed, attempted, mt5, shutdowns>>

\* check_all_data, lines 93-97
CheckIndexTurn ==
    /\ pc = "c_idx" /\ todo # <<>>
    /\ idx_checked' = idx_checked + 1
    /\ idx_ok' = IF CheckFile(disk[Head(todo)]) THEN idx_ok + 1 ELSE idx_ok
    /\ todo' = Tail(todo)
    /\ UNCHANGED <<pc, op, result, fileVars, pagingVars, resolveVars, disk, fx_checked, fx_ok, configVars,
                   callVars, vendorVars, updateVars, run, done_fx, fx_success, fx_failed,
                   idx_success, idx_failed, attempted, mt5, shutdowns>>

\* The summary, lines 99-106
CheckSummary ==
    /\ pc = "c_idx" /\ todo = <<>>
    /\ pc' = "c_done"
    /\ UNCHANGED <<op, result, fileVars, pagingVars, resolveVars, checkVars, configVars, callVars,
                   vendorVars, updateVars, batchVars>>

NextCheck == CheckFxTurn \/ CheckFxLoopEnd \/ CheckIndexTurn \/ CheckSummary

SpecCheck == InitCheckAll /\ [][NextCheck]_vars

----------------------------------------------------------------------------
\* SpecLifecycle: the batch runs with the ways out of them that SpecBatch
\* leaves aside: a KeyboardInterrupt ahead of the try statement, between two
\* per-symbol calls or in the finally clause, and an exception of the try
\* body outside the per-symbol try statements.

\* KeyboardInterrupt in the banner or in initialize_mt5: the try statement was
\* not entered, so only main's handler runs
InterruptBeforeTry ==
    /\ pc = "b_start"
    /\ result' = "interrupt" /\ pc' = "b_main_except"
    /\ UNCHANGED <<op, fileVars, pagingVars, callVars, vendorVars, resolveVars, checkVars, configVars,
                   updateVars, run, todo, done_fx, fx_success, fx_failed, idx_success,
                   idx_failed, attempted, mt5, shutdowns>>

\* KeyboardInterrupt in the try body outside a per-symbol call: the finally
\* clause shuts the connection down and the interrupt reaches main
InterruptInTry ==
    /\ pc \in {"b_fx", "b_idx"}
    /\ result' = "interrupt"
    /\ mt5' = AfterShutdown(mt5) /\ pc' = "b_main_except"
    /\ shutdowns' = Finally(shutdowns, "interrupt")
    /\ UNCHANGED <<op, fileVars, pagingVars, callVars, vendorVars, resolveVars, checkVars, configVars,
                   updateVars, run, todo, done_fx, fx_success, fx_failed, idx_success,
                   idx_failed, attempted>>

\* KeyboardInterrupt in the finally clause ahead of mt5.shutdown()
InterruptInFinally ==
    /\ pc = "b_finally"
    /\ result' = "interrupt" /\ pc' = "b_main_except"
    /\ UNCHANGED <<op, fileVars, pagingVars, callVars, vendorVars, resolveVars, checkVars, configVars,
                   updateVars, run, todo, done_fx, fx_success, fx_failed, idx_success,
                   idx_failed, attempted, mt5, shutdowns>>

\* except Exception as e: an exception of the try body outside the per-symbol
\* try statements is printed, and the finally clause follows
UnexpectedError ==
    /\ pc \in {"b_fx", "b_idx"}
    /\ result' = "unexpected" /\ pc' = "b_finally"
    /\ UNCHANGED <<op, fileVars, pagingVars, callVars, vendorVars, resolveVars, checkVars, configVars,
                   updateVars, run, todo, done_fx, fx_success, fx_failed, idx_success,
                   idx_failed, attempted, mt5, shutdowns>>

NextLifecycle ==
    \/ NextBatch
    \/ InterruptBeforeTry \/ InterruptInTry \/ InterruptInFinally
    \/ UnexpectedError

SpecLifecycle == InitBatchRun /\ [][NextLifecycle]_vars

(***************************************************************************)
(*                              The claims                                 *)
(***************************************************************************)

\* The number of chunks of history the simulated vendor holds in all
SimK == Len(served) + vendor_left

\* collect_maximum_data has returned after fetching bars from the simulated
\* vendor, which holds k >= 1 chunks
PagingScenarioDone ==
    /\ pc = "bf_return"
    /\ fetch_calls > 0
    /\ SimK >= 1

\* k+1 bar requests were made and every bar of the k chunks is in the result,
\* in ascending order of unique timestamps
PagingOutcome ==
    /\ fetch_calls = SimK + 1
    /\ Len(served) = SimK
    /\ \A i \in 1..Len(served) : Range(served[i]) \subseteq Range(df)
    /\ StrictlyIncreasing(df)

\* C1 as stated: for every k >= 1, a vendor that returns k progressively older
\* non-empty chunks and then an empty one makes collect_maximum_data end after
\* exactly k+1 bar requests with all bars of the k chunks in its result
C1_AnyDepth == PagingScenarioDone => PagingOutcome

\* C1, amended: the same for every k from 1 to MAX_HISTORICAL_ATTEMPTS, the
\* number of paged requests the loop may issue
C1_WithinBudget ==
    (PagingScenarioDone /\ SimK <= MAX_HISTORICAL_ATTEMPTS) => PagingOutcome

\* A backfill of MAX_HISTORICAL_ATTEMPTS progressive chunks has returned
C1_Witness ==
    /\ PagingScenarioDone
    /\ SimK = MAX_HISTORICAL_ATTEMPTS
    /\ fetch_calls = MAX_HISTORICAL_ATTEMPTS + 1
    /\ Len(df) = MAX_HISTORICAL_ATTEMPTS

\* C2: for every timestamp present in both inputs of append_new_data the
\* result holds exactly one bar, the new collection's (its last row there),
\* and the result is ascending by timestamp without duplicate timestamps
C2_MergePrecedence ==
    pc = "merge_out" =>
        /\ StrictlyIncreasing(merged_df)
        /\ \A t \in TimesOf(existing_df) \cap TimesOf(new_df) :
             /\ Cardinality(RowsAt(merged_df, t)) = 1
             /\ LastAt(merged_df, t) = LastAt(new_df, t)

\* A merge in which the two inputs disagree about the bar of a timestamp
C2_Witness ==
    /\ pc = "merge_out"
    /\ \E t \in TimesOf(existing_df) \cap TimesOf(new_df) :
         /\ LastAt(existing_df, t) # LastAt(new_df, t)
         /\ LastAt(merged_df, t) = LastAt(new_df, t)

\* C3: merging a dataset (rows of unique ascending timestamps) with an empty
\* new collection yields the dataset unchanged
C3_MergeIdempotent ==
    (pc = "merge_out" /\ StrictlyIncreasing(existing_df) /\ new_df = <<>>)
        => merged_df = existing_df

\* A dataset of several rows merged with the empty collection
C3_Witness ==
    /\ pc = "merge_out"
    /\ StrictlyIncreasing(existing_df)
    /\ Len(existing_df) >= 2
    /\ new_df = <<>>
    /\ merged_df = existing_df

\* C4: whatever backfills and updates have run, a dataset persisted at the
\* primary path has rows, and their timestamps are unique and strictly
\* increasing
C4_PersistedOrdered ==
    primary.state = "ok" =>
        /\ Len(primary.rows) >= 1
        /\ StrictlyIncreasing(primary.rows)

\* An update has written a merged dataset of several rows over an older one
C4_Witness ==
    /\ pc = "returned" /\ op = "update" /\ result = "True"
    /\ primary = OkFile(merged_df)
    /\ Len(merged_df) >= 3
    /\ TimesOf(existing_df) \cap TimesOf(new_df) # {}

\* update_symbol is running, or has just returned, with a dataset loaded
UpdateLoaded == op = "update" /\ existing_df # <<>>

\* C5: in every state of an update that loaded a dataset, the primary path or
\* the backup path holds a complete version (the loaded one or the merged
\* one); the loaded version is at the backup path from before the write until
\* after the write has succeeded, and stays there when the write fails
C5_BackupThenReplace ==
    UpdateLoaded =>
        /\ \/ primary = OkFile(existing_df)
           \/ primary = OkFile(merged_df)
           \/ backup = OkFile(existing_df)
        /\ pc = "up_save" => (primary.state = "absent" /\ backup = OkFile(existing_df))
        /\ pc = "up_unlink" => (primary = OkFile(merged_df) /\ backup = OkFile(existing_df))
        /\ (pc = "returned" /\ primary.state # "ok") =>
               (result = "raised" /\ backup = OkFile(existing_df))
        /\ (pc = "returned" /\ result = "True") =>
               (primary = OkFile(existing_df) \/ (primary = OkFile(merged_df) /\ backup = NoFile))

\* The write of the merged dataset has failed and the loaded version is at the
\* backup path
C5_Witness ==
    /\ UpdateLoaded
    /\ pc = "returned" /\ result = "raised"
    /\ primary.state # "ok"
    /\ merged_df # existing_df
    /\ backup = OkFile(existing_df)

\* C6 as stated: in every state of an update, a write that fails part-way
\* included, the primary path holds no incomplete dataset, and the loaded
\* version has left both paths only once the merged one is written
C6_NeverPartial ==
    UpdateLoaded =>
        /\ primary.state # "partial"
        /\ (primary # OkFile(existing_df) /\ backup # OkFile(existing_df))
               => primary = OkFile(merged_df)

\* update_symbol has returned success after a fetch whose window had bars
UpdateSucceededWithBars ==
    /\ pc = "returned" /\ op = "update" /\ result = "True"
    /\ new_kind = "frame" /\ new_df # <<>>

\* The persisted dataset holds the fetched bar at every fetched timestamp and
\* the old bar at every other timestamp it had
FetchedBarsPersisted ==
    /\ primary.state = "ok"
    /\ TimesOf(primary.rows) = TimesOf(existing_df) \cup TimesOf(new_df)
    /\ \A t \in TimesOf(new_df) :
         /\ Cardinality(RowsAt(primary.rows, t)) = 1
         /\ LastAt(primary.rows, t) = LastAt(new_df, t)
    /\ \A t \in TimesOf(existing_df) \ TimesOf(new_df) :
         LastAt(primary.rows, t) = LastAt(existing_df, t)

\* C7 as stated: whenever a non-empty fetch succeeds and update_symbol reports
\* success, the persisted dataset holds the fetched bar at every fetched
\* timestamp and the old bar at every other old timestamp
C7_PipelinePrecedence == UpdateSucceededWithBars => FetchedBarsPersisted

\* C7, amended: the same whenever the fetched window holds a timestamp the
\* dataset did not have; when it holds none, success is reported with the
\* persisted dataset as it was
C7_PrecedenceWhenNewRows ==
    UpdateSucceededWithBars =>
        IF TimesOf(new_df) \subseteq TimesOf(existing_df)
        THEN primary = OkFile(existing_df)
        ELSE FetchedBarsPersisted

\* An update has added a timestamp and replaced the bar of an old one
C7_Witness ==
    /\ UpdateSucceededWithBars
    /\ ~(TimesOf(new_df) \subseteq TimesOf(existing_df))
    /\ \E t \in TimesOf(new_df) \cap TimesOf(existing_df) :
         /\ LastAt(new_df, t) # LastAt(existing_df, t)
         /\ LastAt(primary.rows, t) = LastAt(new_df, t)

\* C8: an update of a loaded dataset whose latest bar is less than 12 hours
\* old, not forced, returns success with no vendor call and both paths as they
\* were; a forced one goes on to symbol resolution and the fetch without
\* looking at the age
C8_FreshnessSkip ==
    /\ [][(pc = "idle" /\ op' = "update" /\ primary.state = "ok") =>
            /\ (~force' /\ hours_since_update' < 12) =>
                   /\ pc' = "returned" /\ result' = "True"
                   /\ fetch_calls' = 0 /\ info_calls' = 0
                   /\ UNCHANGED fileVars
            /\ force' => (pc' = "up_resolve" /\ UNCHANGED fileVars)]_vars
    /\ [][(pc = "up_resolve" /\ force) => info_calls' = info_calls + 1]_vars
    /\ []((UpdateLoaded /\ ~force /\ hours_since_update < 12)
            => (pc = "returned" /\ result = "True"
                /\ fetch_calls = 0 /\ info_calls = 0
                /\ primary = OkFile(existing_df)))

\* A dataset 11 hours old was skipped
C8_Witness ==
    /\ pc = "returned" /\ op = "update" /\ existing_df # <<>>
    /\ ~force /\ hours_since_update = 11
    /\ result = "True" /\ fetch_calls = 0 /\ info_calls = 0
    /\ primary = OkFile(existing_df)

\* update_symbol has returned after collect_recent_data handed back a frame
\* (the vendor had bars) with no bar beyond the dataset's latest timestamp
NoBarBeyondLatest ==
    /\ pc = "returned" /\ op = "update"
    /\ new_kind = "frame"
    /\ \A t \in TimesOf(new_df) : t <= MaxTime(existing_df)

\* C9 as stated: whenever the fetch yields no bar beyond the dataset's latest
\* timestamp, the filtered window being empty included, update_symbol reports
\* success and the artifact is as it was
C9_NoNewDataNoOp ==
    NoBarBeyondLatest => (result = "True" /\ primary = OkFile(existing_df))

\* C9, amended: whenever the filtered window has bars and every timestamp in it
\* is in the dataset already, update_symbol reports success and the artifact is
\* as it was; an empty filtered window leaves the artifact as it was and is
\* reported as a failure
C9_NoNewTimestampNoOp ==
    (pc = "returned" /\ op = "update" /\ new_kind = "frame") =>
        /\ (new_df # <<>> /\ TimesOf(new_df) \subseteq TimesOf(existing_df))
               => (result = "True" /\ primary = OkFile(existing_df))
        /\ new_df = <<>>
               => (result = "False" /\ primary = OkFile(existing_df))

\* An update whose window only revised a bar the dataset had returned success
\* and left the dataset as it was
C9_Witness ==
    /\ pc = "returned" /\ op = "update" /\ new_kind = "frame"
    /\ new_df # <<>>
    /\ TimesOf(new_df) \subseteq TimesOf(existing_df)
    /\ \E t \in TimesOf(new_df) : LastAt(new_df, t) # LastAt(existing_df, t)
    /\ result = "True"
    /\ primary = OkFile(existing_df)

\* The configured symbols in the order the two loops take them
BatchOrder == FX_SYMBOLS \o INDEX_SYMBOLS

\* The number of times x is in a list
Occurrences(list, x) == Cardinality({i \in DOMAIN list : list[i] = x})

\* No per-symbol call of the batch was interrupted from the keyboard
NotInterrupted == \A i \in DOMAIN attempted : attempted[i].outcome # "interrupt"

\* C10: in collect_all_symbols and update_all_symbols, whatever the outcomes
\* of the per-symbol calls (success, failure return, Exception), the symbols
\* are attempted once each in configuration order, FX before index; each
\* attempted symbol is in exactly one list, the success list of its loop if
\* its call succeeded and the failed list otherwise; and the batch ends only
\* with every configured symbol attempted
C10_FailureIsolation ==
    (run # "none" /\ NotInterrupted) =>
        /\ Len(attempted) <= Len(BatchOrder)
        /\ \A i \in DOMAIN attempted : attempted[i].symbol = BatchOrder[i]
        /\ \A i \in DOMAIN attempted :
             LET symbol == attempted[i].symbol
                 is_fx == i <= Len(FX_SYMBOLS)
                 success == IF is_fx THEN fx_success ELSE idx_success
                 failed == IF is_fx THEN fx_failed ELSE idx_failed
             IN /\ Occurrences(fx_success, symbol) + Occurrences(fx_failed, symbol)
                     + Occurrences(idx_success, symbol) + Occurrences(idx_failed, symbol) = 1
                /\ attempted[i].outcome = "True" => Occurrences(success, symbol) = 1
                /\ attempted[i].outcome # "True" => Occurrences(failed, symbol) = 1
        /\ Len(fx_success) + Len(fx_failed) + Len(idx_success) + Len(idx_failed)
             = Len(attempted)
        /\ pc = "b_idx" => Len(attempted) >= Len(FX_SYMBOLS)
        /\ pc \in {"b_finally", "b_done"} /\ mt5 # "down" => Len(attempted) = Len(BatchOrder)

\* A batch has ended in which the first symbol raised, the second returned a
\* failure and the symbols after them were processed all the same
C10_Witness ==
    /\ pc = "b_done" /\ mt5 = "closed"
    /\ Len(attempted) = Len(BatchOrder)
    /\ attempted[1].outcome = "raised"
    /\ attempted[2].outcome = "False"
    /\ attempted[Len(FX_SYMBOLS) + 1].outcome = "raised"
    /\ fx_success = SubSeq(FX_SYMBOLS, 3, Len(FX_SYMBOLS))
    /\ idx_success = <<INDEX_SYMBOLS[2]>>

\* C11: collect_maximum_data returns None exactly when find_symbol found no
\* spelling or the initial request returned no bars, and then no paged request
\* was made; otherwise it returns a non-empty frame in ascending order of
\* unique timestamps, whatever the paged requests returned
C11_BackfillOutcome ==
    pc = "bf_return" =>
        /\ result = "None" <=>
             \/ actual_symbol = "None"
             \/ (Len(served) >= 1 /\ served[1] = <<>>)
        /\ result = "None" => (attempt = 0 /\ anchors = <<>> /\ Len(served) <= 1)
        /\ actual_symbol = "None" => fetch_calls = 0
        /\ result # "None" =>
             (result = "df" /\ df # <<>> /\ StrictlyIncreasing(df))

\* A backfill returned a frame although its second paged request came back
\* empty after a chunk with duplicate timestamps
C11_Witness ==
    /\ pc = "bf_return" /\ result = "df"
    /\ Len(served) = 3
    /\ Cardinality(TimesOf(served[2])) < Len(served[2])
    /\ served[3] = <<>>
    /\ df # <<>>

\* C12: the frame collect_maximum_data returns has unique timestamps in
\* ascending order, holds every timestamp of the accumulated bars, and at each
\* of them the bar that comes first in accumulation order
C12_FirstOccurrenceWins ==
    (pc = "bf_return" /\ result = "df") =>
        /\ StrictlyIncreasing(df)
        /\ TimesOf(df) = TimesOf(all_rates)
        /\ \A t \in TimesOf(all_rates) :
             /\ Cardinality(RowsAt(df, t)) = 1
             /\ LastAt(df, t) = FirstAt(all_rates, t)

\* After two paged requests the accumulated bars held a timestamp twice with
\* different bars, and the first was kept
C12_Witness ==
    /\ pc = "bf_return" /\ result = "df"
    /\ Len(anchors) >= 2
    /\ \E t \in TimesOf(all_rates) :
         /\ Cardinality(RowsAt(all_rates, t)) >= 2
         /\ LastAt(all_rates, t) # FirstAt(all_rates, t)
         /\ LastAt(df, t) = FirstAt(all_rates, t)

\* The spellings find_symbol tries for the symbol asked for, in order
Spellings == SYMBOL_ALTERNATIVES(asked_symbol)

\* The i-th spelling resolves: the vendor's symbol_info knows it
Resolves(i) == symbol_table[Spellings[i]] # "unknown"

\* The i-th spelling resolves and is in Market Watch or can be put there
Usable(i) == symbol_table[Spellings[i]] \in {"visible", "hidden"}

\* C13 as stated: find_symbol returns the first spelling, in configured
\* order, that resolves, and None if and only if no spelling resolves
C13_FirstResolving ==
    pc = "fs_return" =>
        /\ actual_symbol = "None" <=> \A i \in DOMAIN Spellings : ~Resolves(i)
        /\ \A i \in DOMAIN Spellings :
             (Resolves(i) /\ \A j \in 1..(i - 1) : ~Resolves(j))
                 => actual_symbol = Spellings[i]

\* C13, amended: find_symbol returns the first spelling, in configured order,
\* that resolves and is visible or can be enabled, and None if and only if no
\* spelling is such
C13_FirstUsable ==
    pc = "fs_return" =>
        /\ actual_symbol = "None" <=> \A i \in DOMAIN Spellings : ~Usable(i)
        /\ \A i \in DOMAIN Spellings :
             (Usable(i) /\ \A j \in 1..(i - 1) : ~Usable(j))
                 => actual_symbol = Spellings[i]

\* The first spelling resolved but could not be enabled, and a later one that
\* had to be enabled was returned although one after it was usable too
C13_Witness ==
    /\ pc = "fs_return"
    /\ Len(Spellings) >= 3
    /\ symbol_table[Spellings[1]] = "locked"
    /\ symbol_table[Spellings[2]] = "hidden"
    /\ symbol_table[Spellings[3]] = "visible"
    /\ actual_symbol = Spellings[2]

\* C14: update_symbol on a symbol without a persisted dataset reports failure,
\* makes no vendor call, and creates neither the primary artifact nor a backup
C14_MissingDataset ==
    [][(pc = "idle" /\ op' = "update" /\ primary.state = "absent") =>
           /\ pc' = "returned" /\ result' = "False"
           /\ info_calls' = 0 /\ fetch_calls' = 0
           /\ served' = served
           /\ primary' = primary /\ backup' = backup]_vars

\* update_symbol returned False for a symbol that has no dataset and no backup
C14_Witness ==
    /\ pc = "returned" /\ op = "update" /\ result = "False"
    /\ primary.state = "absent" /\ backup.state = "absent"
    /\ info_calls = 0 /\ fetch_calls = 0

\* No symbol was attempted, no vendor request for a symbol or for bars was
\* made, and no run list has an entry
NothingAttempted ==
    /\ attempted = <<>>
    /\ fx_success = <<>> /\ fx_failed = <<>> /\ idx_success = <<>> /\ idx_failed = <<>>
    /\ info_calls = 0 /\ fetch_calls = 0 /\ served = <<>>
    /\ shutdowns = 0

\* C15: when initialize_mt5 fails, the run ends there: it is the run's last
\* step, no symbol was resolved, no bars were fetched, and no artifact was
\* created, renamed or modified
C15_FatalInitialization ==
    [][/\ (pc = "b_start" /\ mt5' # "up") =>
              /\ pc' = "b_done" /\ mt5' = "down"
              /\ NothingAttempted'
              /\ primary' = primary /\ backup' = backup
       /\ ~(mt5 = "down" /\ pc # "b_start")]_vars

\* A run has ended on a failed initialization
C15_Witness ==
    /\ pc = "b_done" /\ run # "none" /\ mt5 = "down"
    /\ NothingAttempted

\* The file exists and pandas can read it
ExistsAndReadable(file) == file.state = "ok"

\* The number of the first n symbols of a list whose file exists and is readable
ReadableAmong(symbols, n) ==
    Cardinality({i \in 1..n : ExistsAndReadable(disk[symbols[i]])})

\* C16: check_file passes a symbol if and only if its file exists and is
\* readable, whatever the duplicate, missing-value and gap warnings of the
\* report; each OK tally of check_all_data is the number of symbols checked
\* so far whose file passes; and the checker leaves every artifact as it was
C16_CheckerVerdict ==
    /\ [](pc \in {"c_fx", "c_idx", "c_done"} =>
            /\ \A symbol \in ConfiguredSymbols :
                 CheckFile(disk[symbol]) <=> ExistsAndReadable(disk[symbol])
            /\ fx_ok = ReadableAmong(FX_SYMBOLS, fx_checked)
            /\ idx_ok = ReadableAmong(INDEX_SYMBOLS, idx_checked)
            /\ pc = "c_done" =>
                 /\ fx_checked = Len(FX_SYMBOLS) /\ idx_checked = Len(INDEX_SYMBOLS)
                 /\ fx_ok + idx_ok = ReadableAmong(BatchOrder, Len(BatchOrder)))
    /\ [][disk' = disk /\ primary' = primary /\ backup' = backup]_vars

\* The checker has finished over a missing file, an unreadable file, a file
\* with duplicated timestamps and a file with a gap and a missing value, and
\* counted the two files with warnings as OK
C16_Witness ==
    /\ pc = "c_done"
    /\ disk[FX_SYMBOLS[1]] = NoFile
    /\ disk[FX_SYMBOLS[2]] = PartialFile
    /\ disk[FX_SYMBOLS[3]].state = "ok"
    /\ Warnings(disk[FX_SYMBOLS[3]].rows).duplicates > 0
    /\ disk[INDEX_SYMBOLS[1]].state = "ok"
    /\ Warnings(disk[INDEX_SYMBOLS[1]].rows).large_gaps > 0
    /\ Warnings(disk[INDEX_SYMBOLS[1]].rows).missing > 0
    /\ disk[INDEX_SYMBOLS[2]] = NoFile
    /\ fx_ok = 4 /\ idx_ok = 1

\* The chunk that answered the request of the step
AnsweredChunk == served'[Len(served')]

\* C17: each paged request of collect_maximum_data is anchored exactly one
\* minute before the earliest timestamp accumulated so far; a paged chunk that
\* is empty or whose earliest timestamp does not precede it ends the loop and
\* adds none of its bars, and any other chunk adds bars; and whatever the
\* vendor answers, at most MAX_HISTORICAL_ATTEMPTS paged requests are made
C17_PagingLoopRule ==
    /\ [][pc = "bf_page" =>
            /\ fetch_calls' = fetch_calls + 1
            /\ anchors' = Append(anchors, [datetime |-> MinTime(all_rates),
                                           minutes_before |-> 1])
            /\ IF AnsweredChunk = <<>> \/ MinTime(AnsweredChunk) >= MinTime(all_rates)
               THEN pc' = "bf_return" /\ all_rates' = all_rates
               ELSE /\ Len(all_rates') > Len(all_rates)
                    /\ pc' = "bf_return" <=> Len(anchors') = MAX_HISTORICAL_ATTEMPTS]_vars
    /\ [](/\ Len(anchors) <= MAX_HISTORICAL_ATTEMPTS
          /\ fetch_calls <= 1 + MAX_HISTORICAL_ATTEMPTS
          /\ pc = "bf_page" => Len(anchors) < MAX_HISTORICAL_ATTEMPTS)

\* The vendor had older bars at every request and the loop ended on its budget
C17_Witness ==
    /\ pc = "bf_return" /\ result = "df"
    /\ Len(anchors) = MAX_HISTORICAL_ATTEMPTS
    /\ Len(served) = 1 + MAX_HISTORICAL_ATTEMPTS
    /\ served[Len(served)] # <<>>
    /\ MinTime(served[Len(served)]) < anchors[Len(anchors)].datetime
    /\ MinTime(all_rates) > 0

\* The rows have pairwise different timestamps
UniqueTimes(rows) == Cardinality(TimesOf(rows)) = Len(rows)

\* The bars the step put in front of the accumulation
Prepended == SubSeq(all_rates', 1, Len(all_rates') - Len(all_rates))

\* C18: a paged request only puts bars in front of the accumulation; each of
\* them is a bar of the answered chunk with a timestamp strictly older than
\* the watermark in force at the request, so none has a timestamp already
\* held; and while every chunk served had unique timestamps, so has the
\* accumulation, before the final de-duplication
C18_WatermarkFilter ==
    /\ [][pc = "bf_page" =>
            /\ Len(all_rates') >= Len(all_rates)
            /\ all_rates' = Prepended \o all_rates
            /\ \A i \in DOMAIN Prepended :
                 /\ Prepended[i].time < earliest_time
                 /\ Prepended[i].time \notin TimesOf(all_rates)
                 /\ \E k \in DOMAIN AnsweredChunk : AnsweredChunk[k] = Prepended[i]]_vars
    /\ []((\A i \in DOMAIN served : UniqueTimes(served[i])) => UniqueTimes(all_rates))

\* A paged chunk held a bar older than the watermark and a bar at or after it;
\* only the older one was added, and the accumulation has unique timestamps
C18_Witness ==
    /\ pc \in {"bf_page", "bf_return"}
    /\ Len(served) >= 2
    /\ UniqueTimes(served[1]) /\ UniqueTimes(served[2])
    /\ \E i, k \in DOMAIN served[2] :
         /\ served[2][i].time < MinTime(served[1])
         /\ served[2][k].time >= MinTime(served[1])
    /\ Len(all_rates) >= Len(served[1]) + 1
    /\ UniqueTimes(all_rates)

\* C19: at the start of every iteration of the paging loop earliest_time is
\* the minimum timestamp of the accumulated bars; an iteration that adds bars
\* strictly decreases earliest_time and one that adds none leaves it; and the
\* anchors requested within one backfill are pairwise different
C19_WatermarkInvariant ==
    /\ [](pc = "bf_page" => earliest_time = MinTime(all_rates))
    /\ [][pc = "bf_page" =>
            IF all_rates' # all_rates
            THEN earliest_time' < earliest_time
            ELSE earliest_time' = earliest_time]_vars
    /\ [](\A i, j \in DOMAIN anchors : i # j => anchors[i] # anchors[j])

\* Two paged chunks in a row added bars, the first of them with its earliest
\* bar not in its first row, and a third request was anchored
C19_Witness ==
    /\ Len(anchors) = 3 /\ Len(served) >= 3
    /\ Len(served[2]) = 2
    /\ served[2][2].time < served[2][1].time
    /\ anchors[1].datetime > anchors[2].datetime
    /\ anchors[2].datetime > anchors[3].datetime
    /\ anchors[3].datetime = MinTime(served[3])

\* The run is over: the batch function returned to main, or main has exited
\* on a keyboard interrupt
RunOver == pc \in {"b_done", "b_exit"}

\* initialize_mt5 succeeded in the run
InitializationSucceeded == mt5 # "down"

\* No per-symbol call, the only place of requests for symbols and bars, is
\* made once the connection has been shut down
NoCallAfterShutdown == [][shutdowns > 0 => attempted' = attempted]_vars

\* C20 as stated: in every run, however it ends, shutdown has been invoked
\* exactly once if initialization succeeded and never otherwise, and always
\* after the last vendor call
C20_ExactlyOnce ==
    /\ [](RunOver => shutdowns = IF InitializationSucceeded THEN 1 ELSE 0)
    /\ NoCallAfterShutdown

\* C20, amended: shutdown is never invoked when initialize_mt5 fails; after a
\* successful initialization it is invoked at least once, after the last
\* per-symbol call, however the run ends, and exactly once when the batch
\* function returns; a run ended by a keyboard interrupt invokes it in main's
\* handler too, twice in all if the interrupt came inside the try body and
\* once, without a connection, if it came ahead of the try statement
C20_ShutdownLifecycle ==
    /\ [](RunOver =>
            /\ InitializationSucceeded => shutdowns >= 1
            /\ pc = "b_done" => shutdowns = IF InitializationSucceeded THEN 1 ELSE 0
            /\ pc = "b_exit" => shutdowns \in {1, 2}
            /\ (pc = "b_exit" /\ ~InitializationSucceeded) => shutdowns = 1
            /\ (pc = "b_exit" /\ attempted # <<>>
                    /\ attempted[Len(attempted)].outcome = "interrupt") => shutdowns = 2)
    /\ [][/\ (pc \in {"b_fx", "b_idx"} /\ pc' = "b_main_except")
                 => shutdowns' = shutdowns + 1
          /\ (pc = "b_finally" /\ pc' = "b_done") => shutdowns' = shutdowns + 1
          /\ pc = "b_main_except" => (pc' = "b_exit" /\ shutdowns' = shutdowns + 1)]_vars
    /\ NoCallAfterShutdown

\* A keyboard interrupt during a per-symbol call, after others had been made,
\* ended the run with two invocations of shutdown
C20_Witness ==
    /\ pc = "b_exit" /\ mt5 = "closed"
    /\ Len(attempted) >= 2
    /\ attempted[Len(attempted)].outcome = "interrupt"
    /\ shutdowns = 2

\* update_symbol has returned True or False
UpdateReturned == pc = "returned" /\ op = "update" /\ result \in {"True", "False"}

\* C21: when update_symbol returns True or False, whatever the vendor
\* answered and whatever calls came before, every timestamp of the dataset
\* that was persisted at the start of the call is in the persisted dataset,
\* which has at least as many rows as it had
C21_NoHistoryLost ==
    UpdateReturned =>
        /\ TimesOf(existing_df) \subseteq TimesOf(primary.rows)
        /\ Len(primary.rows) >= Len(existing_df)
        /\ existing_df # <<>> => primary.state = "ok"

\* update_symbol returned True after rewriting a dataset of two bars with a
\* window that overlapped it and added a bar
C21_Witness ==
    /\ UpdateReturned /\ result = "True"
    /\ Len(existing_df) = 2
    /\ TimesOf(new_df) \cap TimesOf(existing_df) # {}
    /\ Len(primary.rows) = 3
    /\ primary.rows = merged_df

\* C22: whichever SAVE_FORMAT is configured, when update_symbol removes the
\* backup and returns True, the primary parquet path holds the complete
\* merged dataset, so that the artifact is there for the next update_symbol
C22_FormatIndependence ==
    [][(pc = "up_unlink" /\ pc' = "returned") =>
           /\ result' = "True"
           /\ primary.state = "ok" /\ primary.rows = merged_df
           /\ primary'.state = "ok" /\ primary'.rows = merged_df]_vars

====
